---- MODULE Spec2Model ----
(***************************************************************************)
(* Sumcheck over products of multilinear extensions.                       *)
(*                                                                         *)
(* Field elements are the integers 0..P-1 of the prime field F_P; vectors   *)
(* (Rust Vec) are TLA+ sequences, read through At with the 0-based index   *)
(* the source uses.                                                        *)
(***************************************************************************)
EXTENDS Integers, Sequences, FiniteSets, TLC

\* ------------------------------------------------------------------ bounds
\* The field is F_P, P the least prime not below FieldBound.
FieldBound == 5
\* Longest bookkeeping table of the stand-alone MultilinearExtension runs;
\* get is called with the indices 0..2 * MaxLen.
MaxLen == 4
\* Number of restrict_first_var calls applied to one working table.
MaxRestricts == 2
\* Entries of the stand-alone tables and messages are drawn from 0..MaxVal.
MaxVal == 1
\* Longest message handed to evaluate_at_a_point on its own.
MaxEvalLen == 6
\* Longest bookkeeping table of a factor handed to sumcheck_prove.
MaxTableLen == 4
\* Size of the factor list handed to sumcheck_prove: the number of tables plus
\* the number of their entries.
MaxInput == 8
\* The same size for the runs that alter the proof before verifying it.
MaxTamperInput == 6
\* Size of a proof object handed to sumcheck_verify directly: the number of
\* round messages plus the number of their evaluations.
MaxPriorOps == 1
MaxProofInput == 6

\* ------------------------------------------------------------------ field
Primes == {p \in 2..(2 * FieldBound) : \A q \in 2..(p - 1) : p % q # 0}

P == CHOOSE p \in Primes :
        p >= FieldBound /\ \A q \in Primes : q >= FieldBound => p <= q

Field == 0..(P - 1)

ZERO == 0

ONE == 1 % P

Add(a, b) == (a + b) % P

Sub(a, b) == ((a - b) + P) % P

Mul(a, b) == (a * b) % P

\* F::from(k as u64)
FromU64(k) == k % P

\* Field::invert: a CtOption, none exactly for the additive identity.
HasInverse(a) == \E b \in Field : Mul(a, b) = ONE

Invert(a) == CHOOSE b \in Field : Mul(a, b) = ONE

\* ---------------------------------------------------------------- vectors
At(s, i) == s[i + 1]

SetAt(s, i, v) == [s EXCEPT ![i + 1] = v]

Truncate(s, n) == IF n < Len(s) THEN SubSeq(s, 1, n) ELSE s

RECURSIVE Pow2(_)
Pow2(k) == IF k = 0 THEN 1 ELSE 2 * Pow2(k - 1)

\* idx >> k
Shr(idx, k) == idx \div Pow2(k)

\* All sequences over S of length lo..hi.
SeqsOf(S, lo, hi) == UNION {[1..k -> S] : k \in lo..hi}

\* All lists of non-empty vectors over S of at most len entries each whose
\* size, the number of vectors plus the number of their entries, is at most
\* size.
RECURSIVE VecLists(_, _, _)
VecLists(S, len, size) ==
    IF size < 2 THEN {<<>>}
    ELSE {<<>>} \cup
         UNION {{<<t>> \o rest :
                    rest \in VecLists(S, len, size - Len(t) - 1)} :
                t \in SeqsOf(S, 1, IF len < size - 1 THEN len ELSE size - 1)}

\* ------------------------------------------------- MultilinearExtension
\* Number of binary digits of x (64 - x.leading_zeros()).
RECURSIVE BitLen(_)
BitLen(x) == IF x = 0 THEN 0 ELSE 1 + BitLen(x \div 2)

IsPowerOfTwo(x) == x > 0 /\ Pow2(BitLen(x) - 1) = x

\* ark_std::log2 as MultilinearExtension::new calls it.
Log2Floor(x) == IF x = 0 THEN 0 ELSE BitLen(x) - 1

Log2(x) ==
    IF x = 0 THEN 0
    ELSE IF IsPowerOfTwo(x) THEN BitLen(x) - 1
    ELSE BitLen(x)

MleNew(bookkeeping_table_vec) ==
    [bookkeping_table |-> bookkeeping_table_vec,
     num_vars |-> Log2(Len(bookkeeping_table_vec))]

\* Option<F>: None, or Some(v) as the record [some |-> v].
None == [none |-> TRUE]

Some(v) == [some |-> v]

\* get with the implicit-zero test ahead of the range test.
MleGetPadFirst(mle, idx) ==
    IF idx >= Len(mle.bookkeping_table) THEN Some(ZERO)
    ELSE IF idx >= Pow2(mle.num_vars) THEN None
    ELSE Some(At(mle.bookkeping_table, idx))

MleGet(mle, idx) ==
    IF idx >= Pow2(mle.num_vars) THEN None
    ELSE IF idx >= Len(mle.bookkeping_table) THEN Some(ZERO)
    ELSE Some(At(mle.bookkeping_table, idx))

\* The loop body of restrict_first_var, iterations i..half-1, on the vector
\* as the earlier iterations left it.
RECURSIVE RestrictLoop(_, _, _, _)
RestrictLoop(table, r, half, i) ==
    IF i >= half THEN table
    ELSE LET l == At(table, i)
             h == At(table, i + half)
         IN RestrictLoop(SetAt(table, i, Add(Mul(Sub(ONE, r), l), Mul(r, h))),
                         r, half, i + 1)

\* The same loop reading the neighbour i + 1 for the high half.
RECURSIVE RestrictLoopAdjacent(_, _, _, _)
RestrictLoopAdjacent(table, r, half, i) ==
    IF i >= half THEN table
    ELSE LET l == At(table, i)
             h == At(table, i + 1)
         IN RestrictLoopAdjacent(
                SetAt(table, i, Add(Mul(Sub(ONE, r), l), Mul(r, h))),
                r, half, i + 1)

RestrictFirstVarAdjacent(table, r) ==
    IF Len(table) = 1 THEN table
    ELSE LET half == Len(table) \div 2
         IN Truncate(RestrictLoopAdjacent(table, r, half, 0), half)

\* A restriction that pairs entry 2i with 2i + 1 (binds the last variable).
RestrictLastVar(table, r) ==
    IF Len(table) = 1 THEN table
    ELSE LET half == Len(table) \div 2
         IN [i \in 1..half |->
                Add(Mul(Sub(ONE, r), At(table, 2 * (i - 1))),
                    Mul(r, At(table, 2 * (i - 1) + 1)))]

RestrictFirstVar(table, r) ==
    IF Len(table) = 1 THEN table
    ELSE LET half == Len(table) \div 2
         IN Truncate(RestrictLoop(table, r, half, 0), half)

\* -------------------------------------------------------- UnivariateEvals
\* Result<F>: Ok(v), Err, or a panic of the call.
Ok(v) == [kind |-> "ok", val |-> v]

Err == [kind |-> "err", val |-> 0]

Panic == [kind |-> "panic", val |-> 0]

\* The fold over the nodes m..len-1 other than x: the numerator is the
\* product of (point - m), the denominator the product of (x - m).
RECURSIVE NumFold(_, _, _, _)
NumFold(x, len, point, m) ==
    IF m >= len THEN ONE
    ELSE IF m = x THEN NumFold(x, len, point, m + 1)
    ELSE Mul(Sub(point, FromU64(m)), NumFold(x, len, point, m + 1))

RECURSIVE DenomFold(_, _, _)
DenomFold(x, len, m) ==
    IF m >= len THEN ONE
    ELSE IF m = x THEN DenomFold(x, len, m + 1)
    ELSE Mul(Sub(FromU64(x), FromU64(m)), DenomFold(x, len, m + 1))

\* Sum over the nodes x..len-1 of evals[x] * num * denom^-1.
RECURSIVE LagrangeSum(_, _, _)
LagrangeSum(evals, point, x) ==
    IF x >= Len(evals) THEN ZERO
    ELSE Add(Mul(Mul(At(evals, x), NumFold(x, Len(evals), point, 0)),
                 Invert(DenomFold(x, Len(evals), 0))),
             LagrangeSum(evals, point, x + 1))

\* The sum with each term multiplied by denom instead of its inverse.
RECURSIVE LagrangeSumNoInverse(_, _, _)
LagrangeSumNoInverse(evals, point, x) ==
    IF x >= Len(evals) THEN ZERO
    ELSE Add(Mul(Mul(At(evals, x), NumFold(x, Len(evals), point, 0)),
                 DenomFold(x, Len(evals), 0)),
             LagrangeSumNoInverse(evals, point, x + 1))

\* evaluate_at_a_point with line 94 multiplying by denom itself.
EvaluateAtAPointNoInverse(evals, point) ==
    IF Len(evals) = 1 THEN Ok(At(evals, 0))
    ELSE IF point = ZERO THEN Ok(At(evals, 0))
    ELSE IF point = ONE THEN Ok(At(evals, 1))
    ELSE IF \E x \in 0..(Len(evals) - 1) :
                ~HasInverse(DenomFold(x, Len(evals), 0))
         THEN Panic
    ELSE Ok(LagrangeSumNoInverse(evals, point, 0))

\* evaluate_at_a_point without the special cases for the points 0 and 1.
EvaluateAtAPointNoShortCircuit(evals, point) ==
    IF Len(evals) = 1 THEN Ok(At(evals, 0))
    ELSE IF \E x \in 0..(Len(evals) - 1) :
                ~HasInverse(DenomFold(x, Len(evals), 0))
         THEN Panic
    ELSE Ok(LagrangeSum(evals, point, 0))

EvaluateAtAPoint(evals, point) ==
    IF Len(evals) = 1 THEN Ok(At(evals, 0))
    ELSE IF point = ZERO THEN Ok(At(evals, 0))
    ELSE IF point = ONE THEN Ok(At(evals, 1))
    ELSE IF \E x \in 0..(Len(evals) - 1) :
                ~HasInverse(DenomFold(x, Len(evals), 0))
         THEN Panic
    ELSE Ok(LagrangeSum(evals, point, 0))

\* ------------------------------------------------------ transcript sponge
\* The state of a sponge is the ordered history of what it absorbed, with
\* the mark SQ for every squeeze.  The value of a squeeze is a function of
\* that history alone, the same function for every sponge built by default().
SQ == 0 - 1

Absorb(tr, elem) == Append(tr, elem)

AbsorbElements(tr, elements) == tr \o elements

AfterSqueeze(tr) == Append(tr, SQ)

\* A squeeze free to return any element, whatever earlier squeezes returned.
SqueezeGivesAnything(orc, tr, r) == TRUE

\* r is what a squeeze of the sponge in state tr returns under the oracle orc.
SqueezeGives(orc, tr, r) == tr \in DOMAIN orc => orc[tr] = r

Sampled(orc, tr, r) == IF tr \in DOMAIN orc THEN orc ELSE (tr :> r) @@ orc

\* ------------------------------------------------------- sumcheck prover
\* Field sum and product of F(k) over k in lo..hi.
RECURSIVE FSum(_, _, _)
FSum(F(_), lo, hi) ==
    IF lo > hi THEN ZERO ELSE Add(F(lo), FSum(F, lo + 1, hi))

RECURSIVE FProd(_, _, _)
FProd(F(_), lo, hi) ==
    IF lo > hi THEN ONE ELSE Mul(F(lo), FProd(F, lo + 1, hi))

Unwrap(opt) == opt.some

MaxOf(S) == IF S = {} THEN 0 ELSE CHOOSE m \in S : \A k \in S : k <= m

MaxNumVars(mles) == MaxOf({mles[k].num_vars : k \in DOMAIN mles})

\* sum_over_hypercube keeping the low n_k bits of idx for each factor.
SumOverHypercubeTrailingBits(mles, n) ==
    LET total_points == Pow2(n)
        prod(idx) ==
            LET term(k) ==
                    LET n_k == mles[k].num_vars
                        curr_mle_idx == idx % Pow2(n_k)
                    IN Unwrap(MleGet(mles[k], curr_mle_idx))
            IN FProd(term, 1, Len(mles))
    IN FSum(prod, 0, total_points - 1)

SumOverHypercube(mles, n) ==
    LET total_points == Pow2(n)
        prod(idx) ==
            LET term(k) ==
                    LET n_k == mles[k].num_vars
                        curr_mle_idx == Shr(idx, n - n_k)
                    IN Unwrap(MleGet(mles[k], curr_mle_idx))
            IN FProd(term, 1, Len(mles))
    IN FSum(prod, 0, total_points - 1)

\* The filter of line 167 keeping only the factors with two or more variables
\* left.
ActiveFactorsMoreThanOne(vars_left) ==
    SelectSeq([k \in DOMAIN vars_left |-> k], LAMBDA k : vars_left[k] > 1)

\* The positions (in factor order) of the factors with vars_left > 0.
ActiveFactors(vars_left) ==
    SelectSeq([k \in DOMAIN vars_left |-> k], LAMBDA k : vars_left[k] > 0)

\* Every tab[base_idx] and tab[base_idx + half_sz] of the round is in range.
EvalRoundInBounds(tables, vars_left, num_remaining_vars) ==
    \A k \in DOMAIN tables :
        vars_left[k] > 0 =>
            LET num_remaining_vars_in_mle == vars_left[k] - 1
                shift == num_remaining_vars - num_remaining_vars_in_mle
                half_sz == Pow2(num_remaining_vars_in_mle)
            IN \A pt \in 0..(Pow2(num_remaining_vars) - 1) :
                    Shr(pt, shift) + half_sz < Len(tables[k])

EvalRoundUnivariate(const_prod, tables, vars_left, num_remaining_vars) ==
    LET active_factors == ActiveFactors(vars_left)
        num_remaining_pts == Pow2(num_remaining_vars)
        d_i == Len(active_factors)
        eval(alpha) ==
            LET a == FromU64(alpha)
                prod(pt) ==
                    LET term(j) ==
                            LET tab == tables[active_factors[j]]
                                v_left == vars_left[active_factors[j]]
                                num_remaining_vars_in_mle == v_left - 1
                                shift == num_remaining_vars
                                            - num_remaining_vars_in_mle
                                base_idx == Shr(pt, shift)
                                half_sz == Pow2(num_remaining_vars_in_mle)
                                low == At(tab, base_idx)
                                high == At(tab, base_idx + half_sz)
                            IN Add(Mul(Sub(ONE, a), low), Mul(a, high))
                    IN Mul(const_prod, FProd(term, 1, d_i))
            IN FSum(prod, 0, num_remaining_pts - 1)
    IN [alpha1 \in 1..(d_i + 1) |-> eval(alpha1 - 1)]

\* restrict_all_active_tables without the decrement of line 127.
RestrictAllActiveTablesKeepCount(tables, vars_left, r_i) ==
    [tables |-> [k \in DOMAIN tables |->
                    IF vars_left[k] > 0
                    THEN RestrictFirstVar(tables[k], r_i) ELSE tables[k]],
     vars_left |-> vars_left]

RestrictAllActiveTables(tables, vars_left, r_i) ==
    [tables |-> [k \in DOMAIN tables |->
                    IF vars_left[k] > 0
                    THEN RestrictFirstVar(tables[k], r_i) ELSE tables[k]],
     vars_left |-> [k \in DOMAIN vars_left |->
                    IF vars_left[k] > 0
                    THEN vars_left[k] - 1 ELSE vars_left[k]]]

\* The loop of lines 185-189 without the test on prev_v: every factor with
\* no variable left is multiplied in, in every round.
FoldResolvedEveryRound(const_prod, tables, vars_left, prev_vars_left) ==
    LET term(k) == IF vars_left[k] = 0 THEN At(tables[k], 0) ELSE ONE
    IN Mul(const_prod, FProd(term, 1, Len(tables)))

\* const_prod after the loop over the factors that became inactive.
FoldResolved(const_prod, tables, vars_left, prev_vars_left) ==
    LET term(k) ==
            IF prev_vars_left[k] > 0 /\ vars_left[k] = 0
            THEN At(tables[k], 0) ELSE ONE
    IN Mul(const_prod, FProd(term, 1, Len(tables)))

SumcheckProofNew(claimed_sum, prover_sumcheck_round_messages) ==
    [claimed_sum |-> claimed_sum,
     prover_sumcheck_round_messages |-> prover_sumcheck_round_messages]

\* ------------------------------------------------------------------ state
VARIABLES
    mle,        \* the MultilinearExtension built by new
    work,       \* a working copy of its table, restricted in place
    rs,         \* the challenges restrict_first_var was called with, in order
    got,        \* the last get call: [idx, res], or NoCall
    evals,      \* the evals of a UnivariateEvals
    point,      \* the point of the last evaluate_at_a_point call
    evres,      \* its result, or NoCall
    oracle,     \* the squeezes made so far: sponge history -> value
    mles,       \* sumcheck_prove: the factors
    ppc,        \* sumcheck_prove: "start", "loop", "done" or "panic"
    n,          \* sumcheck_prove: n
    tables,     \* sumcheck_prove: tables
    vars_left,  \* sumcheck_prove: vars_left
    claimed,    \* sumcheck_prove: claimed
    const_prod, \* sumcheck_prove: const_prod
    i,          \* sumcheck_prove: the round counter i
    prover_msgs, \* sumcheck_prove: prover_msgs (the evals of each message)
    ptr,        \* sumcheck_prove: the prover's transcript
    prs,        \* sumcheck_prove: the challenges r_i squeezed so far
    proof,      \* the SumcheckProof returned by sumcheck_prove, or NoCall
    tamper,     \* the [round, pos, val] replaced in the proof, or NoCall
    sumcheck_proof, \* sumcheck_verify: sumcheck_proof
    oracle_query,   \* sumcheck_verify: Some(oracle_query), NoCall until read
    vpc,        \* sumcheck_verify: "idle", "loop" or "done"
    vtr,        \* sumcheck_verify: the verifier's transcript
    idx,        \* sumcheck_verify: idx
    expected_evaluation, \* sumcheck_verify: expected_evaluation
    vrs,        \* sumcheck_verify: the evaluation points squeezed so far
    vres        \* what sumcheck_verify returned: "none", "true", "false", "panic"

mleVars == <<mle, work, rs, got>>

evalVars == <<evals, point, evres>>

proverVars == <<mles, ppc, n, tables, vars_left, claimed, const_prod, i,
                prover_msgs, ptr, prs, proof>>

verifierVars == <<tamper, sumcheck_proof, oracle_query, vpc, vtr, idx,
                  expected_evaluation, vrs, vres>>

vars == <<mleVars, evalVars, oracle, proverVars, verifierVars>>

NoCall == [nocall |-> TRUE]

MleIdle ==
    /\ mle = MleNew(<<ZERO>>)
    /\ work = <<ZERO>>
    /\ rs = <<>>
    /\ got = NoCall

EvalIdle ==
    /\ evals = <<ZERO>>
    /\ point = ZERO
    /\ evres = NoCall

ProverIdle ==
    /\ mles = <<>>
    /\ ppc = "idle"
    /\ n = 0
    /\ tables = <<>>
    /\ vars_left = <<>>
    /\ claimed = ZERO
    /\ const_prod = ONE
    /\ i = 0
    /\ prover_msgs = <<>>
    /\ ptr = <<>>
    /\ prs = <<>>
    /\ proof = NoCall

VerifierIdle ==
    /\ tamper = NoCall
    /\ oracle_query = NoCall
    /\ vpc = "idle"
    /\ vtr = <<>>
    /\ idx = 0
    /\ expected_evaluation = ZERO
    /\ vrs = <<>>
    /\ vres = "none"

\* ------------------------------------------- MultilinearExtension runs
InitMle ==
    /\ \E t \in SeqsOf(0..MaxVal, 0, MaxLen) :
          /\ mle = MleNew(t)
          /\ work = t
    /\ rs = <<>>
    /\ got = NoCall
    /\ EvalIdle
    /\ oracle = <<>>
    /\ ProverIdle
    /\ VerifierIdle
    /\ sumcheck_proof = NoCall

Get(k) ==
    /\ got' = [idx |-> k, res |-> MleGet(mle, k)]
    /\ UNCHANGED <<mle, work, rs, evalVars, oracle, proverVars, verifierVars>>

Restrict(r) ==
    /\ Len(rs) < MaxRestricts
    /\ work' = RestrictFirstVar(work, r)
    /\ rs' = Append(rs, r)
    /\ UNCHANGED <<mle, got, evalVars, oracle, proverVars, verifierVars>>

NextMle == \E k \in 0..(2 * MaxLen) : Get(k)

SpecMle == InitMle /\ [][NextMle]_vars

NextRestrict == \E r \in Field : Restrict(r)

SpecRestrict == InitMle /\ [][NextRestrict]_vars

\* ------------------------------------------------- UnivariateEvals runs
\* Lengths run past the characteristic so that nodes repeat modulo P.
InitEval ==
    /\ evals \in SeqsOf(0..MaxVal, 1, MaxEvalLen)
    /\ point = ZERO
    /\ evres = NoCall
    /\ MleIdle
    /\ oracle = <<>>
    /\ ProverIdle
    /\ VerifierIdle
    /\ sumcheck_proof = NoCall

Evaluate(x) ==
    /\ point' = x
    /\ evres' = EvaluateAtAPoint(evals, x)
    /\ UNCHANGED <<evals, mleVars, oracle, proverVars, verifierVars>>

NextEval == \E x \in Field : Evaluate(x)

SpecEval == InitEval /\ [][NextEval]_vars

\* ------------------------------------------------------- sumcheck_prove
\* Lines 140-156: n, the working tables, vars_left, the claimed sum absorbed.
ProveStart ==
    /\ ppc = "start"
    /\ n' = MaxNumVars(mles)
    /\ tables' = [k \in DOMAIN mles |-> mles[k].bookkeping_table]
    /\ vars_left' = [k \in DOMAIN mles |-> mles[k].num_vars]
    /\ claimed' = SumOverHypercube(mles, MaxNumVars(mles))
    /\ ptr' = Absorb(ptr, SumOverHypercube(mles, MaxNumVars(mles)))
    /\ prover_msgs' = <<>>
    /\ const_prod' = ONE
    /\ i' = 0
    /\ ppc' = "loop"
    /\ UNCHANGED <<mles, prs, proof, oracle, mleVars, evalVars, verifierVars>>

\* One iteration of the loop of lines 158-190.
ProveRound(r_i) ==
    /\ ppc = "loop"
    /\ i < n
    /\ LET num_remaining_vars == n - i - 1
       IN IF ~EvalRoundInBounds(tables, vars_left, num_remaining_vars)
          THEN /\ ppc' = "panic"
               /\ r_i = ZERO
               /\ UNCHANGED <<tables, vars_left, const_prod, i, prover_msgs,
                              ptr, prs, oracle>>
          ELSE LET round_evals == EvalRoundUnivariate(const_prod, tables,
                                        vars_left, num_remaining_vars)
                   absorbed == AbsorbElements(ptr, round_evals)
                   prev_vars_left == vars_left
                   restricted == RestrictAllActiveTables(tables, vars_left, r_i)
               IN /\ SqueezeGives(oracle, absorbed, r_i)
                  /\ oracle' = Sampled(oracle, absorbed, r_i)
                  /\ ptr' = AfterSqueeze(absorbed)
                  /\ prover_msgs' = Append(prover_msgs, round_evals)
                  /\ prs' = Append(prs, r_i)
                  /\ tables' = restricted.tables
                  /\ vars_left' = restricted.vars_left
                  /\ const_prod' = FoldResolved(const_prod, restricted.tables,
                                        restricted.vars_left, prev_vars_left)
                  /\ i' = i + 1
                  /\ ppc' = "loop"
    /\ UNCHANGED <<mles, n, claimed, proof, mleVars, evalVars, verifierVars>>

\* Line 192.
ProveReturn ==
    /\ ppc = "loop"
    /\ i = n
    /\ proof' = SumcheckProofNew(claimed, prover_msgs)
    /\ ppc' = "done"
    /\ UNCHANGED <<mles, n, tables, vars_left, claimed, const_prod, i,
                   prover_msgs, ptr, prs, oracle, mleVars, evalVars,
                   verifierVars>>

\* ------------------------------------------------------ sumcheck_verify
\* Lines 200-203, on a transcript fresh from default().
VerifyStart(p) ==
    /\ sumcheck_proof' = p
    /\ vtr' = Absorb(<<>>, p.claimed_sum)
    /\ idx' = 0
    /\ expected_evaluation' = p.claimed_sum
    /\ vrs' = <<>>
    /\ vpc' = "loop"
    /\ UNCHANGED <<oracle_query, vres>>

\* The caller hands sumcheck_verify the proof it holds.
VerifyProved ==
    /\ proof # NoCall
    /\ vpc = "idle"
    /\ VerifyStart(proof)
    /\ UNCHANGED <<tamper, oracle, proverVars, mleVars, evalVars>>

\* Lines 200-203 on the transcript the caller passes, with the history tr
\* of whatever was absorbed and squeezed on it before.
VerifyStartOn(tr, p) ==
    /\ sumcheck_proof' = p
    /\ vtr' = Absorb(tr, p.claimed_sum)
    /\ idx' = 0
    /\ expected_evaluation' = p.claimed_sum
    /\ vrs' = <<>>
    /\ vpc' = "loop"
    /\ UNCHANGED <<oracle_query, vres>>

\* The caller hands sumcheck_verify a proof object and a transcript in use.
VerifyGiven(tr) ==
    /\ proof # NoCall
    /\ vpc = "idle"
    /\ VerifyStartOn(tr, proof)
    /\ UNCHANGED <<tamper, oracle, proverVars, mleVars, evalVars>>

\* The proof with evaluation pos of message round replaced by val.
Replaced(p, round, pos, val) ==
    [p EXCEPT !.prover_sumcheck_round_messages[round + 1][pos + 1] = val]

\* The caller hands sumcheck_verify the proof with one evaluation replaced
\* by a different field element.
VerifyTampered(round, pos, val) ==
    /\ proof # NoCall
    /\ vpc = "idle"
    /\ round < Len(proof.prover_sumcheck_round_messages)
    /\ pos < Len(At(proof.prover_sumcheck_round_messages, round))
    /\ val # At(At(proof.prover_sumcheck_round_messages, round), pos)
    /\ tamper' = [round |-> round, pos |-> pos, val |-> val]
    /\ VerifyStart(Replaced(proof, round, pos, val))
    /\ UNCHANGED <<oracle, proverVars, mleVars, evalVars>>

\* Line 207 with the comparison left out.
RoundCheckSkipped(raw_evals, expected) == FALSE

\* Line 207.
RoundCheckFails(raw_evals, expected) ==
    Add(At(raw_evals, 0), At(raw_evals, 1)) # expected

\* The loop body with the squeeze of line 212 ahead of the check of line 207.
VerifyRoundSqueezeFirst(evaluation_point) ==
    /\ vpc = "loop"
    /\ idx < Len(sumcheck_proof.prover_sumcheck_round_messages)
    /\ LET raw_evals == At(sumcheck_proof.prover_sumcheck_round_messages, idx)
           absorbed == AbsorbElements(vtr, raw_evals)
           res == EvaluateAtAPoint(raw_evals, evaluation_point)
       IN /\ SqueezeGives(oracle, absorbed, evaluation_point)
          /\ oracle' = Sampled(oracle, absorbed, evaluation_point)
          /\ vtr' = AfterSqueeze(absorbed)
          /\ vrs' = Append(vrs, evaluation_point)
          /\ IF Len(raw_evals) < 2
             THEN /\ vres' = "panic"
                  /\ vpc' = "done"
                  /\ UNCHANGED <<idx, expected_evaluation>>
             ELSE IF RoundCheckFails(raw_evals, expected_evaluation)
             THEN /\ vres' = "false"
                  /\ vpc' = "done"
                  /\ UNCHANGED <<idx, expected_evaluation>>
             ELSE /\ idx' = idx + 1
                  /\ IF res.kind = "ok"
                     THEN /\ expected_evaluation' = res.val
                          /\ UNCHANGED <<vres, vpc>>
                     ELSE /\ vres' = "panic"
                          /\ vpc' = "done"
                          /\ UNCHANGED expected_evaluation
    /\ UNCHANGED <<tamper, sumcheck_proof, oracle_query, proverVars, mleVars,
                   evalVars>>

\* One iteration of the loop of lines 204-216.
VerifyRound(evaluation_point) ==
    /\ vpc = "loop"
    /\ idx < Len(sumcheck_proof.prover_sumcheck_round_messages)
    /\ LET raw_evals == At(sumcheck_proof.prover_sumcheck_round_messages, idx)
           absorbed == AbsorbElements(vtr, raw_evals)
           res == EvaluateAtAPoint(raw_evals, evaluation_point)
       IN IF Len(raw_evals) < 2
          THEN /\ vres' = "panic"
               /\ vpc' = "done"
               /\ vtr' = absorbed
               /\ evaluation_point = ZERO
               /\ UNCHANGED <<idx, expected_evaluation, vrs, oracle>>
          ELSE IF RoundCheckFails(raw_evals, expected_evaluation)
          THEN /\ vres' = "false"
               /\ vpc' = "done"
               /\ vtr' = absorbed
               /\ evaluation_point = ZERO
               /\ UNCHANGED <<idx, expected_evaluation, vrs, oracle>>
          ELSE /\ SqueezeGives(oracle, absorbed, evaluation_point)
               /\ oracle' = Sampled(oracle, absorbed, evaluation_point)
               /\ vtr' = AfterSqueeze(absorbed)
               /\ vrs' = Append(vrs, evaluation_point)
               /\ idx' = idx + 1
               /\ IF res.kind = "ok"
                  THEN /\ expected_evaluation' = res.val
                       /\ UNCHANGED <<vres, vpc>>
                  ELSE /\ vres' = "panic"
                       /\ vpc' = "done"
                       /\ UNCHANGED expected_evaluation
    /\ UNCHANGED <<tamper, sumcheck_proof, oracle_query, proverVars, mleVars,
                   evalVars>>

\* Lines 218-223 comparing oracle_query with claimed_sum.
VerifyFinalAgainstClaimedSum(q) ==
    /\ vpc = "loop"
    /\ idx = Len(sumcheck_proof.prover_sumcheck_round_messages)
    /\ oracle_query' = Some(q)
    /\ vres' = IF sumcheck_proof.claimed_sum # q THEN "false" ELSE "true"
    /\ vpc' = "done"
    /\ UNCHANGED <<tamper, sumcheck_proof, vtr, idx, expected_evaluation, vrs,
                   oracle, proverVars, mleVars, evalVars>>

\* Lines 218-223 without the comparison: the proof is accepted once the loop
\* is through.
VerifyFinalUnchecked(q) ==
    /\ vpc = "loop"
    /\ idx = Len(sumcheck_proof.prover_sumcheck_round_messages)
    /\ oracle_query' = Some(q)
    /\ vres' = "true"
    /\ vpc' = "done"
    /\ UNCHANGED <<tamper, sumcheck_proof, vtr, idx, expected_evaluation, vrs,
                   oracle, proverVars, mleVars, evalVars>>

\* Lines 218-223 refusing a proof without round messages.
VerifyFinalRejectsEmpty(q) ==
    /\ vpc = "loop"
    /\ idx = Len(sumcheck_proof.prover_sumcheck_round_messages)
    /\ oracle_query' = Some(q)
    /\ vres' = IF idx = 0 \/ expected_evaluation # q THEN "false" ELSE "true"
    /\ vpc' = "done"
    /\ UNCHANGED <<tamper, sumcheck_proof, vtr, idx, expected_evaluation, vrs,
                   oracle, proverVars, mleVars, evalVars>>

\* Lines 218-223; oracle_query is first read here.
VerifyFinal(q) ==
    /\ vpc = "loop"
    /\ idx = Len(sumcheck_proof.prover_sumcheck_round_messages)
    /\ oracle_query' = Some(q)
    /\ vres' = IF expected_evaluation # q THEN "false" ELSE "true"
    /\ vpc' = "done"
    /\ UNCHANGED <<tamper, sumcheck_proof, vtr, idx, expected_evaluation, vrs,
                   oracle, proverVars, mleVars, evalVars>>

\* ------------------------------------------- the honest oracle evaluation
\* eq(r; b) over k variables, r[1] against the most significant bit of b.
RECURSIVE EqPoly(_, _, _, _)
EqPoly(r, b, k, j) ==
    IF j > k THEN ONE
    ELSE LET bit == Shr(b, k - j) % 2
         IN Mul(IF bit = 1 THEN r[j] ELSE Sub(ONE, r[j]),
                EqPoly(r, b, k, j + 1))

\* The multilinear evaluation of the factor f at the leading num_vars
\* coordinates of r, missing table entries read as get reports them.
FactorEval(f, r) ==
    LET term(b) == Mul(EqPoly(r, b, f.num_vars, 1), Unwrap(MleGet(f, b)))
    IN FSum(term, 0, Pow2(f.num_vars) - 1)

\* The product polynomial at the challenge vector r.
HonestEval(fs, r) == FProd(LAMBDA k : FactorEval(fs[k], r), 1, Len(fs))

\* ------------------------------------------------- prove, then verify
\* Table entries of the factors handed to sumcheck_prove.  The challenges
\* range over the whole field, so the restricted tables leave this set.
Bits == {ZERO, ONE}

\* The prover's inputs; the degree of a round stays below the characteristic.
InitProve(size) ==
    /\ \E fl \in VecLists(Bits, MaxTableLen, size) :
          /\ Cardinality({k \in DOMAIN fl : Len(fl[k]) > 1}) < P
          /\ mles = [k \in DOMAIN fl |-> MleNew(fl[k])]
    /\ ppc = "start"
    /\ n = 0
    /\ tables = <<>>
    /\ vars_left = <<>>
    /\ claimed = ZERO
    /\ const_prod = ONE
    /\ i = 0
    /\ prover_msgs = <<>>
    /\ ptr = <<>>
    /\ prs = <<>>
    /\ proof = NoCall
    /\ oracle = <<>>
    /\ sumcheck_proof = NoCall
    /\ VerifierIdle
    /\ MleIdle
    /\ EvalIdle

Init == InitProve(MaxInput)

Next ==
    \/ ProveStart
    \/ \E r \in Field : ProveRound(r)
    \/ ProveReturn
    \/ VerifyProved
    \/ \E r \in Field : VerifyRound(r)
    \/ \E q \in Field : VerifyFinal(q)

Spec == Init /\ [][Next]_vars

\* ------------------------------------------------ sumcheck_prove alone
\* The call runs to its end: every step it can take, it takes.
NextProve ==
    \/ ProveStart
    \/ \E r \in Field : ProveRound(r)
    \/ ProveReturn

SpecProve == Init /\ [][NextProve]_vars /\ WF_vars(NextProve)

\* ----------------------------- prove, then verify an altered proof
InitTamper == InitProve(MaxTamperInput)

NextTamper ==
    \/ ProveStart
    \/ \E r \in Field : ProveRound(r)
    \/ ProveReturn
    \/ \E round \in 0..MaxTamperInput, pos \in 0..MaxTamperInput,
          val \in Field : VerifyTampered(round, pos, val)
    \/ \E r \in Field : VerifyRound(r)
    \/ \E q \in Field : VerifyFinal(q)

SpecTamper == InitTamper /\ [][NextTamper]_vars

\* ------------------------------------- verify a proof object as given
ProofObjects ==
    {SumcheckProofNew(c, ms) :
        c \in Field, ms \in VecLists(Bits, MaxProofInput, MaxProofInput)}

InitVerify ==
    /\ proof \in ProofObjects
    /\ mles = <<>>
    /\ ppc = "idle"
    /\ n = 0
    /\ tables = <<>>
    /\ vars_left = <<>>
    /\ claimed = ZERO
    /\ const_prod = ONE
    /\ i = 0
    /\ prover_msgs = <<>>
    /\ ptr = <<>>
    /\ prs = <<>>
    /\ oracle = <<>>
    /\ sumcheck_proof = NoCall
    /\ VerifierIdle
    /\ MleIdle
    /\ EvalIdle

NextVerify ==
    \/ VerifyProved
    \/ \E r \in Field : VerifyRound(r)
    \/ \E q \in Field : VerifyFinal(q)

SpecVerify == InitVerify /\ [][NextVerify]_vars

\* ------------------- verify a proof object on a transcript already in use
\* Histories of the transcript handed to sumcheck_verify.
PriorTranscripts == SeqsOf(Bits \cup {SQ}, 0, MaxPriorOps)

NextVerifyOn ==
    \/ \E tr \in PriorTranscripts : VerifyGiven(tr)
    \/ \E r \in Field : VerifyRound(r)
    \/ \E q \in Field : VerifyFinal(q)

SpecVerifyOn == InitVerify /\ [][NextVerifyOn]_vars

\* ================================================================ claims
\* ---- MultilinearExtension::get
TableLen == Len(mle.bookkeping_table)

GetStored == got # NoCall /\ got.idx < TableLen

GetPadded == got # NoCall /\ TableLen <= got.idx /\ got.idx < Pow2(mle.num_vars)

GetOutOfRange == got # NoCall /\ got.idx >= Pow2(mle.num_vars)

\* C6: get(idx) returns the stored value table[idx] when idx < L, the additive
\* identity when L <= idx < 2^num_vars and None when idx >= 2^num_vars, and
\* exactly one of the three cases applies to every idx.
C6_GetThreeWay ==
    got # NoCall =>
        /\ GetStored => got.res = Some(At(mle.bookkeping_table, got.idx))
        /\ GetPadded => got.res = Some(ZERO)
        /\ GetOutOfRange => got.res = None
        /\ Cardinality({c \in {1, 2, 3} :
                \/ c = 1 /\ GetStored
                \/ c = 2 /\ GetPadded
                \/ c = 3 /\ GetOutOfRange}) = 1

\* A get that fell between the table's length and 2^num_vars.
C6_Witness == GetPadded /\ TableLen = 3 /\ got.idx = 3 /\ got.res = Some(ZERO)

\* ---- MultilinearExtension::new
\* C7: for every table length L >= 1, num_vars is the least k with 2^k >= L.
C7_NumVarsCeilLog2 ==
    TableLen >= 1 =>
        /\ Pow2(mle.num_vars) >= TableLen
        /\ \A k \in 0..(mle.num_vars - 1) : Pow2(k) < TableLen

\* A table whose length is not a power of two has num_vars rounded up.
C7_Witness == TableLen = 3 /\ mle.num_vars = 2

\* ---- MultilinearExtension::restrict_first_var
LastR(s) == s[Len(s)]

\* new[i] = (1 - r) * old[i] + r * old[i + h], from the values of old.
Halved(old, r) ==
    LET h == Len(old) \div 2
    IN [k \in 1..h |-> Add(Mul(Sub(ONE, r), old[k]), Mul(r, old[k + h]))]

\* C8: restrict_first_var on a table of length 2h (h >= 1) leaves the table
\* of length h with new[i] = (1 - r) * old[i] + r * old[i + h], every entry
\* computed from the values before the call; a length-1 table is unchanged.
C8_RestrictHalves ==
    [][rs' # rs =>
        /\ Len(work) = 1 => work' = work
        /\ (Len(work) >= 2 /\ Len(work) % 2 = 0) =>
                /\ Len(work') = Len(work) \div 2
                /\ work' = Halved(work, LastR(rs'))]_vars

\* One restriction of a length-4 table by a challenge other than 0 and 1.
C8_Witness ==
    /\ TableLen = 4 /\ Len(rs) = 1 /\ Len(work) = 2
    /\ rs[1] \notin {ZERO, ONE}
    /\ At(mle.bookkeping_table, 1) # At(mle.bookkeping_table, 2)

\* Sum over b in b..2^k-1 of eq(r; b) * table[b].
RECURSIVE EvalByEq(_, _, _, _)
EvalByEq(table, r, k, b) ==
    IF b >= Pow2(k) THEN ZERO
    ELSE Add(Mul(EqPoly(r, b, k, 1), At(table, b)),
             EvalByEq(table, r, k, b + 1))

\* C9: k restrictions of a table of length 2^k by r_1..r_k leave a length-1
\* table holding the sum over b of eq(r_1..r_k; b) * table[b], the first
\* challenge bound to the most significant index bit.
C9_FullRestrictionIsEvaluation ==
    (TableLen = Pow2(mle.num_vars) /\ Len(rs) = mle.num_vars) =>
        /\ Len(work) = 1
        /\ work[1] = EvalByEq(mle.bookkeping_table, rs, mle.num_vars, 0)

\* A length-4 table restricted twice by two different challenges.
C9_Witness ==
    /\ TableLen = 4 /\ Len(rs) = 2 /\ Len(work) = 1
    /\ rs[1] # rs[2] /\ rs[1] \notin {ZERO, ONE}
    /\ work[1] # ZERO

\* ---- UnivariateEvals::evaluate_at_a_point
\* The integer product over m # j of (j - m), m in m..len-1.
RECURSIVE DenomInt(_, _, _)
DenomInt(j, len, m) ==
    IF m >= len THEN 1
    ELSE (IF m = j THEN 1 ELSE j - m) * DenomInt(j, len, m + 1)

SomeDenominatorZero ==
    \E j \in 0..(Len(evals) - 1) : DenomInt(j, Len(evals), 0) % P = 0

\* C5: on a message of length >= 2 at a point other than 0 and 1,
\* evaluate_at_a_point returns an error result, not a crash, whenever the
\* denominator of some node is the additive identity.
C5_ZeroDenominatorIsErr ==
    (evres # NoCall /\ Len(evals) >= 2 /\ point \notin {ZERO, ONE}
        /\ SomeDenominatorZero) => evres = Err

\* C10: evaluate_at_a_point(0) is Ok(evals[0]); evaluate_at_a_point(1) is
\* Ok(evals[1]) for length >= 2 and Ok(evals[0]) for length 1.
C10_NodeShortCircuit ==
    evres # NoCall =>
        /\ point = ZERO => evres = Ok(At(evals, 0))
        /\ point = ONE =>
              evres = Ok(IF Len(evals) >= 2 THEN At(evals, 1) ELSE At(evals, 0))

\* The point 1 on a message whose nodes repeat modulo P.
C10_Witness ==
    /\ evres # NoCall /\ point = ONE /\ Len(evals) > P
    /\ At(evals, 1) # At(evals, 0) /\ evres = Ok(At(evals, 1))

\* a / b in the field, for b other than the additive identity.
Div(a, b) == CHOOSE q \in Field : Mul(q, b) = a

\* Sum over j of e_j * product over m # j of (x - m) / (j - m).
LagrangeValue(e, x) ==
    LET d == Len(e) - 1
        basis(j) ==
            FProd(LAMBDA m : IF m = j THEN ONE
                             ELSE Div(Sub(x, FromU64(m)),
                                      Sub(FromU64(j), FromU64(m))),
                  0, d)
    IN FSum(LAMBDA j : Mul(At(e, j), basis(j)), 0, d)

\* C11: when the characteristic exceeds the degree d = Len(evals) - 1,
\* evaluate_at_a_point(x) returns the Lagrange sum over the nodes 0..d for
\* every field element x, and so e_j at every node j in 0..d.
C11_LagrangeInterpolation ==
    (evres # NoCall /\ Len(evals) <= P) =>
        /\ evres = Ok(LagrangeValue(evals, point))
        /\ \A j \in 0..(Len(evals) - 1) :
                point = FromU64(j) => evres = Ok(At(evals, j))

\* A degree-2 message evaluated off its nodes, at a value it does not hold.
C11_Witness ==
    /\ evres # NoCall /\ Len(evals) = 3 /\ point = FromU64(3)
    /\ evres.kind = "ok"
    /\ \A j \in 0..2 : evres.val # At(evals, j)

\* ---- sumcheck_prove and sumcheck_verify
NoConstantFactor == \A k \in DOMAIN mles : mles[k].num_vars > 0

PowerOfTwoTables ==
    \A k \in DOMAIN mles :
        Len(mles[k].bookkeping_table) = Pow2(mles[k].num_vars)

VerifiedProved == vpc = "done" /\ tamper = NoCall /\ sumcheck_proof = proof

Rounds == Len(sumcheck_proof.prover_sumcheck_round_messages)

\* The n-bit index b as a point of the hypercube, leading bit first.
BitsOf(b, k) == [j \in 1..k |-> Shr(b, k - j) % 2]

\* The nested sum over x_1..x_k in {0,1} of the product of the factors, each
\* at its leading coordinates.
NestedSum(fs, k) ==
    FSum(LAMBDA b : HonestEval(fs, BitsOf(b, k)), 0, Pow2(k) - 1)

\* C12: the claimed sum computed by sumcheck_prove, and held by the proof it
\* returns, is the sum over the n-bit hypercube (n the largest arity) of the
\* product of the factors, each factor reading the leading n_i bits.
C12_ClaimedSumLeadingBits ==
    /\ ppc \in {"loop", "panic", "done"} =>
            claimed = NestedSum(mles, MaxNumVars(mles))
    /\ proof # NoCall =>
            proof.claimed_sum = NestedSum(mles, MaxNumVars(mles))

\* A returned proof for factors of arities 2 and 1 whose alignment matters.
C12_Witness ==
    /\ ppc = "done" /\ proof # NoCall /\ n = 2
    /\ \E k \in DOMAIN mles :
          /\ mles[k].num_vars = 1
          /\ At(mles[k].bookkeping_table, 0) # At(mles[k].bookkeping_table, 1)
    /\ proof.claimed_sum = FromU64(2)

Messages == proof.prover_sumcheck_round_messages

\* C13: the message pushed in round i has one entry more than there are
\* factors with a remaining-variable count above 0 at the start of the round,
\* which is one more than the number of factors with num_vars > i; every
\* message of a returned proof has that length, and at least 2.
C13_MessageLength ==
    /\ [][prover_msgs' # prover_msgs =>
            LET pushed == prover_msgs'[Len(prover_msgs')]
            IN /\ Len(prover_msgs') = i + 1
               /\ Len(pushed) =
                     Cardinality({k \in DOMAIN vars_left : vars_left[k] > 0}) + 1
               /\ Len(pushed) =
                     Cardinality({k \in DOMAIN mles : mles[k].num_vars > i}) + 1
       ]_vars
    /\ [](proof # NoCall =>
            \A j \in 0..(Len(Messages) - 1) :
                /\ Len(At(Messages, j)) =
                      Cardinality({k \in DOMAIN mles : mles[k].num_vars > j}) + 1
                /\ Len(At(Messages, j)) >= 2)

\* A proof for factors of arities 2 and 1: three entries, then two.
C13_Witness ==
    /\ proof # NoCall /\ Len(Messages) = 2
    /\ Len(At(Messages, 0)) = 3 /\ Len(At(Messages, 1)) = 2

\* Number of squeezes a sponge with the history tr has made.
Squeezes(tr) == Cardinality({k \in DOMAIN tr : tr[k] = SQ})

ProveEnded == ppc \in {"done", "panic"}

\* The call ended by returning a proof of n messages after n loop iterations
\* and n squeezes.
ReturnedAfterNRounds ==
    /\ ppc = "done" /\ proof # NoCall
    /\ n = MaxNumVars(mles)
    /\ i = n /\ Len(prs) = n /\ Squeezes(ptr) = n
    /\ Len(Messages) = n /\ Messages = prover_msgs

\* One loop iteration pushes one message behind the earlier ones and makes
\* one squeeze.
OneMessageOneSqueeze ==
    i' # i =>
        /\ i' = i + 1
        /\ Len(prover_msgs') = i + 1
        /\ SubSeq(prover_msgs', 1, i) = prover_msgs
        /\ Squeezes(ptr') = Squeezes(ptr) + 1

\* C14: sumcheck_prove always comes to its end, and at its end it has run the
\* round loop exactly n = max num_vars times, one squeeze per round, and
\* returns a proof of exactly n messages in round order.
C14_ProveRunsNRounds ==
    /\ <>ProveEnded
    /\ [](ProveEnded => ReturnedAfterNRounds)
    /\ [][OneMessageOneSqueeze]_vars

\* Position in tr of the mark of its j-th squeeze.
SqueezePos(tr, j) ==
    CHOOSE k \in DOMAIN tr :
        tr[k] = SQ /\ Squeezes(SubSeq(tr, 1, k)) = j

\* What the sponge was driven with before its j-th squeeze.
HistoryBefore(tr, j) == SubSeq(tr, 1, SqueezePos(tr, j) - 1)

C16_RaggedTablesProve ==
    /\ ppc # "panic"
    /\ (ppc = "done" /\ ~PowerOfTwoTables) => proof # NoCall

\* g_i(alpha): the sum over the assignments b of the variables after x_i of
\* the product of all factors at (r_0, .., r_{i-1}, alpha, b).
RoundPolynomial(fs, r, alpha, k) ==
    LET rest == k - Len(r) - 1
    IN FSum(LAMBDA b : HonestEval(fs, r \o <<alpha>> \o BitsOf(b, rest)),
            0, Pow2(rest) - 1)

\* Every entry of every message pushed so far is the round polynomial at its
\* node.
MessagesAreRoundPolynomials ==
    \A j \in 0..(Len(prover_msgs) - 1) :
        \A alpha \in 0..(Len(At(prover_msgs, j)) - 1) :
            At(At(prover_msgs, j), alpha) =
                RoundPolynomial(mles, SubSeq(prs, 1, j), FromU64(alpha), n)

\* C17: entry alpha of round i's message is the sum over the remaining
\* variables of the product of all factors, active and resolved alike, at
\* the challenges of the earlier rounds, alpha and the assignment.
C17_RoundMessageSemantics ==
    ppc \in {"loop", "done"} => MessagesAreRoundPolynomials

\* The product of the sole remaining value of every resolved factor.
ResolvedProduct ==
    FProd(LAMBDA k : IF vars_left[k] = 0 THEN At(tables[k], 0) ELSE ONE,
          1, Len(tables))

\* C18: at the start of every round each factor is active or resolved to a
\* single table value, and const_prod is the product of the values of the
\* resolved factors, those with zero variables at the call included.
C18_ConstProdIsResolvedProduct ==
    (ppc = "loop" /\ i < n) =>
        /\ \A k \in DOMAIN tables :
              vars_left[k] > 0 \/ (vars_left[k] = 0 /\ Len(tables[k]) = 1)
        /\ const_prod = ResolvedProduct

\* The factors that went from a positive count to zero in rounds 0..i-1, each
\* by its value at the challenges, once.
FoldedOnce ==
    FProd(LAMBDA k : IF mles[k].num_vars >= 1 /\ mles[k].num_vars <= i
                     THEN FactorEval(mles[k], prs) ELSE ONE,
          1, Len(mles))

\* After i rounds: a factor of 1..i variables has count 0 and the single
\* table value it was folded by; a factor of more has num_vars - i left.
CountsAfterRounds ==
    \A k \in DOMAIN mles :
        IF mles[k].num_vars <= i
        THEN /\ vars_left[k] = 0
             /\ mles[k].num_vars >= 1 =>
                    tables[k] = <<FactorEval(mles[k], prs)>>
        ELSE vars_left[k] = mles[k].num_vars - i

\* A round multiplies const_prod by the sole remaining value of exactly the
\* factors whose count it takes from 1 to 0, and leaves the factors with
\* count 0 as they are.
FoldsInSameRound ==
    i' = i + 1 =>
        /\ const_prod' =
              Mul(const_prod,
                  FProd(LAMBDA k : IF vars_left[k] = 1
                                   THEN At(tables'[k], 0) ELSE ONE,
                        1, Len(tables)))
        /\ \A k \in DOMAIN tables :
              vars_left[k] = 0 =>
                  (vars_left'[k] = 0 /\ tables'[k] = tables[k])
        /\ ActiveFactors(vars_left') =
              SelectSeq([k \in DOMAIN mles |-> k],
                        LAMBDA k : mles[k].num_vars > i + 1)

\* C19: a factor whose count goes from positive to zero in a round is
\* multiplied into const_prod in that round, once, by its sole remaining
\* table value, and is out of the active set from then on; over the run no
\* factor is multiplied in twice.
C19_FoldedExactlyOnce ==
    /\ [][FoldsInSameRound]_vars
    /\ [](ppc \in {"loop", "done"} =>
            (CountsAfterRounds /\ const_prod = FoldedOnce))

\* A one-variable factor folded in round 0 by a value other than 0 and 1,
\* next to a two-variable factor folded in round 1.
C19_Witness ==
    /\ ppc = "done" /\ n = 2 /\ i = 2
    /\ \E k \in DOMAIN mles :
          /\ mles[k].num_vars = 1
          /\ At(tables[k], 0) \notin {ZERO, ONE}
    /\ const_prod # ZERO

\* C20: in every proof returned by sumcheck_prove, message 0 sums to
\* claimed_sum at the nodes 0 and 1, and message i >= 1 sums to message i-1
\* evaluated at the challenge squeezed after it was absorbed.
C20_ProofRoundSums ==
    proof # NoCall =>
        \A j \in 0..(Len(Messages) - 1) :
            Add(At(At(Messages, j), 0), At(At(Messages, j), 1)) =
                IF j = 0 THEN proof.claimed_sum
                ELSE EvaluateAtAPoint(At(Messages, j - 1), prs[j]).val

\* C1: with identically initialised transcripts, sumcheck_verify on the proof
\* of sumcheck_prove and the product of the factors' multilinear evaluations
\* at the squeezed challenges returns true, for every list of factors.
C1_Completeness ==
    VerifiedProved =>
        /\ idx = Rounds
        /\ oracle_query # NoCall
        /\ oracle_query = Some(HonestEval(mles, vrs)) => vres = "true"

\* What the final comparison is made against: the last message at the last
\* squeezed challenge, or claimed_sum for a proof without messages.
LastMessageValue ==
    IF Rounds = 0 THEN sumcheck_proof.claimed_sum
    ELSE EvaluateAtAPoint(
            At(sumcheck_proof.prover_sumcheck_round_messages, Rounds - 1),
            vrs[Len(vrs)]).val

\* C2: on a proof of sumcheck_prove, sumcheck_verify returns false for every
\* oracle_query other than the last message evaluated at the last squeezed
\* challenge (other than claimed_sum for a proof without messages).
C2_WrongOracleQueryRejected ==
    (VerifiedProved /\ oracle_query # NoCall
        /\ oracle_query # Some(LastMessageValue)) => vres = "false"

\* A two-round proof whose checks all pass, refused on the oracle query.
C2_Witness ==
    /\ VerifiedProved /\ Rounds = 2 /\ idx = 2
    /\ oracle_query # NoCall /\ oracle_query # Some(LastMessageValue)
    /\ vres = "false"

\* The untampered proof passes the sum check of every round 0..k, the
\* verifier squeezing the prover's challenges up to there.
ProvedChecksPass(k) ==
    \A j \in 0..k :
        LET msgs == proof.prover_sumcheck_round_messages
            want == IF j = 0 THEN proof.claimed_sum
                    ELSE EvaluateAtAPoint(At(msgs, j - 1), prs[j]).val
        IN Add(At(At(msgs, j), 0), At(At(msgs, j), 1)) = want

VerifiedTampered == vpc = "done" /\ tamper # NoCall

C4_VerifyReturnsBoolean == vpc = "done" => vres \in {"true", "false"}

\* What a sponge has been driven with after absorb(claimed_sum) and k rounds
\* of absorb_elements(message) followed by one squeeze.
RECURSIVE TranscriptThrough(_, _)
TranscriptThrough(p, k) ==
    IF k = 0 THEN <<p.claimed_sum>>
    ELSE TranscriptThrough(p, k - 1)
            \o At(p.prover_sumcheck_round_messages, k - 1) \o <<SQ>>

\* C21: on a proof of sumcheck_prove, sumcheck_verify drives its transcript
\* through the same ordered operations as the prover drove its own,
\* absorb(claimed_sum) and per round absorb_elements then one squeeze, and
\* squeezes the prover's r_i in every round i.
C21_SameTranscriptOperations ==
    VerifiedProved =>
        /\ vtr = TranscriptThrough(proof, Rounds)
        /\ vtr = ptr
        /\ vrs = prs

\* On a proof of sumcheck_prove the verifier's challenges are the prover's as
\* far as it gets, and without factors of zero variables it gets through the
\* prover's whole sequence.
VerifierFollowsProver ==
    (vpc # "idle" /\ tamper = NoCall /\ sumcheck_proof = proof) =>
        /\ Len(vrs) <= Len(prs) /\ vrs = SubSeq(prs, 1, Len(vrs))
        /\ NoConstantFactor => C21_SameTranscriptOperations

VerifierMessages == sumcheck_proof.prover_sumcheck_round_messages

\* evals[0] + evals[1] of the message of round k.
RoundSum(k) ==
    Add(At(At(VerifierMessages, k), 0), At(At(VerifierMessages, k), 1))

\* The value round k's sum is compared with: claimed_sum, or the message
\* before evaluated at the challenge the verifier squeezed after it.
ExpectedAt(k) ==
    IF k = 0 THEN sumcheck_proof.claimed_sum
    ELSE EvaluateAtAPoint(At(VerifierMessages, k - 1), vrs[k]).val

\* The verifier returned false inside the loop, in round idx.
RejectedInRound == vpc = "done" /\ vres = "false" /\ idx < Rounds

\* C22: sumcheck_verify returns false in the first round j whose message has
\* evals[0] + evals[1] other than the expected value: every earlier round
\* passed, message j has been absorbed, no challenge was squeezed for round
\* j, nothing later was absorbed or checked, and exactly j squeezes happened.
C22_RejectsAtFirstFailingRound ==
    /\ RejectedInRound =>
          /\ RoundSum(idx) # ExpectedAt(idx)
          /\ \A k \in 0..(idx - 1) : RoundSum(k) = ExpectedAt(k)
          /\ Squeezes(vtr) = idx /\ Len(vrs) = idx
          /\ vtr = TranscriptThrough(sumcheck_proof, idx)
                      \o At(VerifierMessages, idx)
          /\ oracle_query = NoCall
    /\ (vpc = "loop" /\ idx < Rounds /\ Len(At(VerifierMessages, idx)) >= 2
            /\ RoundSum(idx) # ExpectedAt(idx))
        => (\A k \in 0..(idx - 1) : RoundSum(k) = ExpectedAt(k))
    /\ (vpc = "done" /\ vres \in {"true", "false"} /\ idx = Rounds)
        => (\A k \in 0..(Rounds - 1) : RoundSum(k) = ExpectedAt(k))

\* A proof refused in its second round, after one squeeze.
C22_Witness ==
    /\ RejectedInRound /\ idx = 1 /\ Rounds >= 2
    /\ Squeezes(vtr) = 1 /\ RoundSum(0) = ExpectedAt(0)

\* Every equality the verifier is to check holds: each round's sum against
\* claimed_sum or the message before at the verifier's challenge, and the
\* last message at the last challenge (claimed_sum for a proof without
\* messages) against oracle_query.
AllChecksHold ==
    /\ Len(vrs) = Rounds
    /\ \A k \in 0..(Rounds - 1) :
          /\ Len(At(VerifierMessages, k)) >= 2
          /\ RoundSum(k) = ExpectedAt(k)
    /\ oracle_query = Some(ExpectedAt(Rounds))

\* C23: sumcheck_verify returns true only if every round's sum check and the
\* final comparison with oracle_query hold, and returns true whenever they
\* all hold.
C23_TrueIffAllChecksHold ==
    (vpc = "done" /\ vres \in {"true", "false"}) =>
        (vres = "true" <=> AllChecksHold)

\* A proof of two messages accepted, and its checks.
C23_Witness ==
    /\ vpc = "done" /\ vres = "true" /\ Rounds = 2 /\ AllChecksHold
    /\ vrs[1] \notin {ZERO, ONE}
    /\ At(VerifierMessages, 0) # At(VerifierMessages, 1)

\* Factor k is among the active factors at the start of the current round.
IsActive(k) ==
    \E j \in DOMAIN ActiveFactors(vars_left) : ActiveFactors(vars_left)[j] = k

AtRoundStart == ppc = "loop" /\ i < n

\* C24 as claimed: a factor with fewer variables than n is idle, not among
\* the active factors, in the early rounds, those before the round counter
\* has come within the factor's arity of n.
C24_LowerArityIdleEarly ==
    AtRoundStart =>
        \A k \in DOMAIN mles :
            (mles[k].num_vars < n /\ i < n - mles[k].num_vars) => ~IsActive(k)

\* C24 as amended: a factor with 1 <= n_k < n variables is active, counted
\* in the degree, in the rounds 0..n_k-1 and idle in the rounds from n_k on.
C24_LowerArityIdleLate ==
    AtRoundStart =>
        /\ \A k \in DOMAIN mles :
              (mles[k].num_vars >= 1 /\ mles[k].num_vars < n) =>
                  (IsActive(k) <=> i < mles[k].num_vars)
        /\ Len(ActiveFactors(vars_left)) =
              Cardinality({k \in DOMAIN mles : mles[k].num_vars > i})
        /\ \A j \in 0..(i - 1) :
              Len(At(prover_msgs, j)) =
                  Cardinality({k \in DOMAIN mles : mles[k].num_vars > j}) + 1

\* Round 1 of 2: the one-variable factor, counted in round 0's degree 2, is
\* idle.
C24_Witness ==
    /\ AtRoundStart /\ n = 2 /\ i = 1
    /\ Len(At(prover_msgs, 0)) = 3
    /\ \E k \in DOMAIN mles : mles[k].num_vars = 1 /\ ~IsActive(k)
    /\ \E k \in DOMAIN mles : mles[k].num_vars = 2 /\ IsActive(k)

\* What the transcript held when sumcheck_verify was called.
PriorTranscript ==
    SubSeq(vtr, 1,
           Len(vtr) - Len(TranscriptThrough(sumcheck_proof, idx))
                    - (IF vpc = "done" /\ idx < Rounds
                       THEN Len(At(VerifierMessages, idx)) ELSE 0))

\* C25: sumcheck_verify takes the number of rounds and the length of each
\* message from the proof object alone.  A proof without round messages is
\* accepted exactly when claimed_sum = oracle_query, on any transcript
\* history, after the one absorb and no squeeze; a message of any length
\* from 2 on passes on its evals[0] + evals[1] alone and hands on its
\* interpolation at the challenge; an accepted proof went through as many
\* rounds as it holds messages.
C25_RoundsAndLengthsFromProof ==
    /\ (vpc = "done" /\ Rounds = 0) =>
          /\ vres \in {"true", "false"}
          /\ vres = "true" <=> oracle_query = Some(sumcheck_proof.claimed_sum)
          /\ PriorTranscript \in PriorTranscripts
          /\ vtr = Absorb(PriorTranscript, sumcheck_proof.claimed_sum)
          /\ vrs = <<>>
    /\ vpc # "idle" =>
          \A k \in 0..(idx - 1) :
              /\ Len(At(VerifierMessages, k)) >= 2
              /\ RoundSum(k) = ExpectedAt(k)
    /\ vpc = "loop" => expected_evaluation = ExpectedAt(idx)
    /\ (vpc = "done" /\ vres = "true") =>
          /\ idx = Rounds
          /\ oracle_query = Some(ExpectedAt(Rounds))

\* A proof without round messages accepted on a transcript that had been
\* squeezed before.
C25_Witness ==
    /\ vpc = "done" /\ Rounds = 0 /\ vres = "true"
    /\ PriorTranscript = <<SQ>>
    /\ oracle_query = Some(sumcheck_proof.claimed_sum)

\* An accepted proof, checked against no polynomial, with a message of four
\* evaluations.
LongMessageAccepted ==
    /\ vpc = "done" /\ vres = "true" /\ Rounds >= 1
    /\ Len(At(VerifierMessages, 0)) >= 4
    /\ Len(mles) = 0

\* Without factors of zero variables the messages are the round polynomials
\* and const_prod is the product of the resolved factors.
RoundInvariantsWithoutConstants ==
    NoConstantFactor =>
        (C17_RoundMessageSemantics /\ C18_ConstProdIsResolvedProduct)

\* Without factors of zero variables the returned proof has the round sums.
ProofRoundSumsWithoutConstants == NoConstantFactor => C20_ProofRoundSums

\* The call returns after exactly n rounds for tables of power-of-two lengths.
ProveRunsNRoundsOnPowerOfTwo ==
    /\ PowerOfTwoTables => <>(ppc = "done")
    /\ []((PowerOfTwoTables /\ ProveEnded) => ReturnedAfterNRounds)
    /\ [][OneMessageOneSqueeze]_vars

\* Completeness for power-of-two tables of at least two entries each.
CompletenessWithoutConstants ==
    (NoConstantFactor /\ PowerOfTwoTables) =>
        (ppc # "panic" /\ C1_Completeness)

====
